---- MODULE Spec2Model ----
(***************************************************************************)
(* Model of src/app.py: the ticker cache (load_cache, save_cache,          *)
(* fetch_company_info), the legislator build                               *)
(* (load_current_legislators_only), the trade feed ingestion               *)
(* (load_congress_trading_data), the two registered startup handlers, the  *)
(* shutdown handler and the request handlers (ticker lookups, the          *)
(* diagnostic endpoint), alone and interleaved in the threads of the       *)
(* server. The build of the legislator mapping over a sequence of files    *)
(* is the record loop of load_current_legislators_only run over each file. *)
(*                                                                         *)
(* Python str values are sequences of one-character strings, so that       *)
(* str.upper and datetime.strptime are computed character by character.    *)
(***************************************************************************)
EXTENDS Integers, Sequences, FiniteSets, TLC

VARIABLES
    pc,                 \* position of the process: lifecycle state or startup step
    ticker_cache,       \* module global ticker_cache (app.py:18)
    disk,               \* the file at CACHE_PATH: content and access mode
    congress_data,      \* module global congress_data (app.py:89)
    state_lookup,       \* module global state_lookup (app.py:90)
    bio_to_committees,  \* module global bio_to_committees (app.py:91)
    legFile,            \* the legislators-current.yaml file
    response,           \* what the curl call to the bulk endpoint produces
    now,                \* the wall clock, in ticks
    cutoff_date,        \* local cutoff_date of the last feed filtering
    stepLog,            \* ingestion steps called so far in this process
    ret,                \* outcome of the last completed operation
    returned,           \* log of the records fetch_company_info has returned
    paths,              \* the legislators files handed to a build over files
    threads             \* request handlers inside fetch_company_info

vars == <<pc, ticker_cache, disk, congress_data, state_lookup,
          bio_to_committees, legFile, response, now, cutoff_date, stepLog, ret,
          returned, paths, threads>>

----------------------------------------------------------------------------
(* Bounds of the model *)

MaxFeedLen == 2
MaxPersons == 2
MaxTicks == 2
MaxThreads == 2
TicksPerDay == 2

(* Program constants *)

WindowDays == 730

----------------------------------------------------------------------------
(* Python str as character sequences *)

LowerLetters == <<"a","b","c","d","e","f","g","h","i","j","k","l","m",
                  "n","o","p","q","r","s","t","u","v","w","x","y","z">>
UpperLetters == <<"A","B","C","D","E","F","G","H","I","J","K","L","M",
                  "N","O","P","Q","R","S","T","U","V","W","X","Y","Z">>

UpperChar(c) ==
    IF \E i \in 1..26 : LowerLetters[i] = c
    THEN UpperLetters[CHOOSE i \in 1..26 : LowerLetters[i] = c]
    ELSE c

\* a mutant of upper: the string is left as it is
upper_identity(s) == s

\* str.upper()
upper(s) == [i \in 1..Len(s) |-> UpperChar(s[i])]

s_AAPL == <<"A","A","P","L">>
s_aapl == <<"a","a","p","l">>
s_MSFT == <<"M","S","F","T">>
s_msft == <<"m","s","f","t">>
s_Unknown == <<"U","n","k","n","o","w","n">>
s_Apple == <<"A","p","p","l","e">>

----------------------------------------------------------------------------
(* Python values handed to fetch_company_info *)

PyStr(s) == [type |-> "str", s |-> s]
PyNone == [type |-> "NoneType", s |-> <<>>]
PyInt == [type |-> "int", s |-> <<>>]        \* a non-zero int

\* Python truthiness of an argument
Truthy(v) ==
    CASE v.type = "str" -> v.s # <<>>
      [] v.type = "NoneType" -> FALSE
      [] OTHER -> TRUE

TickerInputs == {PyNone, PyInt, PyStr(<<>>), PyStr(s_aapl), PyStr(s_AAPL),
                 PyStr(s_msft)}

----------------------------------------------------------------------------
(* Dictionaries and the cache file *)

EmptyMap == [k \in {} |-> 0]

Put(f, k, v) == [x \in (DOMAIN f) \cup {k} |-> IF x = k THEN v ELSE f[x]]

\* a Python object that json can hold: a dict, or (type "list") the list []
PyDict(d) == [type |-> "dict", d |-> d]
PyList == [type |-> "list", d |-> EmptyMap]

FallbackOf(t) == [name |-> t, industry |-> "General"]
UnknownRecord == [name |-> s_Unknown, industry |-> "Unknown"]
NoRecord == [name |-> <<>>, industry |-> ""]
AppleRecord == [name |-> s_Apple, industry |-> "Technology"]

\* file content: absent, text that is not JSON, a truncated write, or JSON text
Absent == [fmt |-> "absent", doc |-> PyList]
Garbage == [fmt |-> "garbage", doc |-> PyList]
Partial == [fmt |-> "partial", doc |-> PyList]

\* json.dump(obj, f): the text written for obj
json_dump(obj) == [fmt |-> "json", doc |-> obj]

\* json.load(f): the object, or JSONDecodeError
json_load(content) ==
    IF content.fmt = "json"
    THEN [raised |-> FALSE, value |-> content.doc]
    ELSE [raised |-> TRUE, value |-> PyList]

\* access modes of the cache file: read and write, no access (open fails),
\* and a full device (open for writing truncates, the write then fails)
Perms == {"rw", "none", "full"}

InitialContents ==
    {Absent, Garbage, json_dump(PyList), json_dump(PyDict(EmptyMap)),
     json_dump(PyDict([k \in {s_AAPL} |-> AppleRecord])),
     json_dump(PyDict([k \in {s_aapl} |-> AppleRecord]))}

----------------------------------------------------------------------------
(* load_cache, save_cache, fetch_company_info *)

\* load_cache(): the new value of ticker_cache
load_cache(cache, dsk) ==
    IF dsk.content.fmt = "absent"
    THEN [raised |-> FALSE, cache |-> cache]
    ELSE IF dsk.perm = "none" \/ json_load(dsk.content).raised
         THEN [raised |-> FALSE, cache |-> PyDict(EmptyMap)]
         ELSE [raised |-> FALSE, cache |-> json_load(dsk.content).value]

\* a mutant of save_cache: nothing is written
save_cache_skip(cache, dsk) == [raised |-> FALSE, disk |-> dsk]

\* save_cache(): open(CACHE_PATH, "w") then json.dump; no exception is caught
save_cache(cache, dsk) ==
    CASE dsk.perm = "rw" ->
            [raised |-> FALSE, disk |-> [dsk EXCEPT !.content = json_dump(cache)]]
      [] dsk.perm = "full" ->
            [raised |-> TRUE, disk |-> [dsk EXCEPT !.content = Partial]]
      [] OTHER ->
            [raised |-> TRUE, disk |-> dsk]

\* a mutant of fetch_company_info: a miss rebuilds the cache around the new
\* entry
fetch_company_info_replaces(ticker, cache, dsk) ==
    IF ~Truthy(ticker) \/ ticker.type # "str"
    THEN [raised |-> FALSE, value |-> UnknownRecord, cache |-> cache,
          disk |-> dsk, saves |-> 0]
    ELSE IF cache.type # "dict"
    THEN [raised |-> TRUE, value |-> NoRecord, cache |-> cache,
          disk |-> dsk, saves |-> 0]
    ELSE IF upper(ticker.s) \in DOMAIN cache.d
    THEN [raised |-> FALSE, value |-> cache.d[upper(ticker.s)],
          cache |-> cache, disk |-> dsk, saves |-> 0]
    ELSE LET inserted == PyDict(Put(EmptyMap, upper(ticker.s),
                                    FallbackOf(upper(ticker.s))))
             sv == save_cache(inserted, dsk)
         IN [raised |-> sv.raised,
             value |-> IF sv.raised THEN NoRecord
                       ELSE FallbackOf(upper(ticker.s)),
             cache |-> inserted, disk |-> sv.disk, saves |-> 1]

\* a mutant of fetch_company_info: the guard of line 46 tests only the
\* truth value, so a non-string reaches ticker.upper()
fetch_company_info_no_type_check(ticker, cache, dsk) ==
    IF ~Truthy(ticker)
    THEN [raised |-> FALSE, value |-> UnknownRecord, cache |-> cache,
          disk |-> dsk, saves |-> 0]
    ELSE IF ticker.type # "str" \/ cache.type # "dict"
    THEN [raised |-> TRUE, value |-> NoRecord, cache |-> cache,
          disk |-> dsk, saves |-> 0]
    ELSE IF upper(ticker.s) \in DOMAIN cache.d
    THEN [raised |-> FALSE, value |-> cache.d[upper(ticker.s)],
          cache |-> cache, disk |-> dsk, saves |-> 0]
    ELSE LET inserted == PyDict(Put(cache.d, upper(ticker.s),
                                    FallbackOf(upper(ticker.s))))
             sv == save_cache(inserted, dsk)
         IN [raised |-> sv.raised,
             value |-> IF sv.raised THEN NoRecord
                       ELSE FallbackOf(upper(ticker.s)),
             cache |-> inserted, disk |-> sv.disk, saves |-> 1]

\* fetch_company_info(ticker)
fetch_company_info(ticker, cache, dsk) ==
    IF ~Truthy(ticker) \/ ticker.type # "str"
    THEN [raised |-> FALSE, value |-> UnknownRecord, cache |-> cache,
          disk |-> dsk, saves |-> 0]
    ELSE LET t == upper(ticker.s) IN
         IF cache.type # "dict"
         THEN \* a list: the membership test is False, the item assignment
              \* raises TypeError
              [raised |-> TRUE, value |-> NoRecord, cache |-> cache,
               disk |-> dsk, saves |-> 0]
         ELSE IF t \in DOMAIN cache.d
         THEN [raised |-> FALSE, value |-> cache.d[t], cache |-> cache,
               disk |-> dsk, saves |-> 0]
         ELSE LET fallback == FallbackOf(t)
                  inserted == PyDict(Put(cache.d, t, fallback))
                  sv == save_cache(inserted, dsk)
              IN [raised |-> sv.raised,
                  value |-> IF sv.raised THEN NoRecord ELSE fallback,
                  cache |-> inserted, disk |-> sv.disk, saves |-> 1]

----------------------------------------------------------------------------
(* Calendar dates and datetime.strptime(traded_str, "%Y-%m-%d") *)

DigitChars == <<"0","1","2","3","4","5","6","7","8","9">>

IsDigit(c) == \E i \in 1..10 : DigitChars[i] = c

DigitVal(c) == (CHOOSE i \in 1..10 : DigitChars[i] = c) - 1

AllDigits(s) == \A i \in 1..Len(s) : IsDigit(s[i])

RECURSIVE NumVal(_)
NumVal(s) ==
    IF s = <<>> THEN 0
    ELSE 10 * NumVal(SubSeq(s, 1, Len(s) - 1)) + DigitVal(s[Len(s)])

IsLeap(y) == (y % 4 = 0) /\ ((y % 100 # 0) \/ (y % 400 = 0))

DaysInMonth(y, m) ==
    IF m = 2 THEN (IF IsLeap(y) THEN 29 ELSE 28)
    ELSE IF m \in {4, 6, 9, 11} THEN 30 ELSE 31

DaysBeforeYear(y) ==
    (y - 1) * 365 + ((y - 1) \div 4) - ((y - 1) \div 100) + ((y - 1) \div 400)

RECURSIVE DaysBeforeMonth(_, _)
DaysBeforeMonth(y, m) ==
    IF m = 1 THEN 0 ELSE DaysBeforeMonth(y, m - 1) + DaysInMonth(y, m - 1)

\* proleptic Gregorian ordinal of a date, as datetime orders dates
ymd2ord(y, m, d) == DaysBeforeYear(y) + DaysBeforeMonth(y, m) + d

\* a datetime as ticks: the date's ordinal and the time of day
DateTime(y, m, d, tod) == ymd2ord(y, m, d) * TicksPerDay + tod

\* the directive %m: 1[0-2]|0[1-9]|[1-9]
MonthField(s) ==
    /\ Len(s) \in {1, 2}
    /\ AllDigits(s)
    /\ NumVal(s) \in 1..12

\* the directive %d: 3[01]|[12]\d|0[1-9]|[1-9]
DayField(s) ==
    /\ Len(s) \in {1, 2}
    /\ AllDigits(s)
    /\ NumVal(s) \in 1..31

\* the directive %Y: \d\d\d\d
YearField(s) == Len(s) = 4 /\ AllDigits(s)

\* position of the second "-" of s, 0 when there is none at 7 or 8
SecondDash(s) ==
    IF Len(s) >= 7 /\ s[7] = "-" THEN 7
    ELSE IF Len(s) >= 8 /\ s[8] = "-" THEN 8 ELSE 0

\* datetime.strptime(s, "%Y-%m-%d"): midnight of the date, or ValueError
strptime(s) ==
    LET p == SecondDash(s)
        ys == SubSeq(s, 1, 4)
        ms == SubSeq(s, 6, p - 1)
        ds == SubSeq(s, p + 1, Len(s))
        bad == [raised |-> TRUE, value |-> 0]
    IN IF Len(s) < 8 \/ s[5] # "-" \/ p = 0 THEN bad
       ELSE IF ~(YearField(ys) /\ MonthField(ms) /\ DayField(ds)) THEN bad
       ELSE IF NumVal(ys) < 1 \/ NumVal(ds) > DaysInMonth(NumVal(ys), NumVal(ms))
       THEN bad
       ELSE [raised |-> FALSE,
             value |-> DateTime(NumVal(ys), NumVal(ms), NumVal(ds), 0)]

\* timedelta(days=n) in ticks
timedelta(days) == days * TicksPerDay

----------------------------------------------------------------------------
(* The bulk trading feed and load_congress_trading_data *)

\* the value of item.get("Traded", "") or its absence
TradedMissing == [type |-> "missing", s |-> <<>>]
TradedNull == [type |-> "NoneType", s |-> <<>>]
TradedInt == [type |-> "int", s |-> <<>>]            \* a non-zero number
TradedStr(s) == [type |-> "str", s |-> s]

d_2020_01_01 == <<"2","0","2","0","-","0","1","-","0","1">>
d_2024_06_01 == <<"2","0","2","4","-","0","6","-","0","1">>
d_2022_06_15 == <<"2","0","2","2","-","0","6","-","1","5">>
d_2022_06_16 == <<"2","0","2","2","-","0","6","-","1","6">>
d_2022_06_17 == <<"2","0","2","2","-","0","6","-","1","7">>
d_2024_6_1 == <<"2","0","2","4","-","6","-","1">>
d_2023_02_30 == <<"2","0","2","3","-","0","2","-","3","0">>
d_slashes == <<"0","6","/","0","1","/","2","0","2","4">>

\* an element of the decoded array: a trade object, or a JSON string
Trade(traded, name) == [type |-> "dict", Traded |-> traded, Name |-> name]
NotATrade == [type |-> "str", Traded |-> TradedMissing, Name |-> ""]

FeedItems ==
    {Trade(TradedStr(d_2020_01_01), "A"), Trade(TradedStr(d_2024_06_01), "B"),
     Trade(TradedStr(d_2022_06_15), "C"), Trade(TradedStr(d_2022_06_16), "D"),
     Trade(TradedStr(d_2022_06_17), "E"), Trade(TradedStr(d_2024_6_1), "F"),
     Trade(TradedStr(d_2023_02_30), "G"), Trade(TradedStr(d_slashes), "H"),
     Trade(TradedStr(<<>>), "I"), Trade(TradedMissing, "J"),
     Trade(TradedNull, "K"), Trade(TradedInt, "L"), NotATrade}

SeqsUpTo(S, n) == UNION {[1..k -> S] : k \in 0..n}

\* the body of the response: text that is not JSON, or a JSON document
\* (an array, an object such as an error message, or a number)
BodyInvalid == [fmt |-> "invalid", type |-> "none", items |-> <<>>]
BodyArray(items) == [fmt |-> "json", type |-> "list", items |-> items]
BodyObject == [fmt |-> "json", type |-> "dict", items |-> <<>>]
BodyNumber == [fmt |-> "json", type |-> "int", items |-> <<>>]

\* the outcome of subprocess.run(curl_command, ..., timeout=45)
CurlOk(body) == [transport |-> "ok", body |-> body]
CurlFailed(how) == [transport |-> how, body |-> BodyInvalid]

TransportFailures == {"nonzero_exit", "timeout", "launch_failure"}

Responses ==
    {CurlFailed(how) : how \in TransportFailures}
    \cup {CurlOk(BodyInvalid), CurlOk(BodyObject), CurlOk(BodyNumber)}
    \cup {CurlOk(BodyArray(items)) : items \in SeqsUpTo(FeedItems, MaxFeedLen)}

\* one pass of the loop body of lines 255-262 on item: "keep", "skip", or
\* "raise" for an exception that except (ValueError, TypeError) lets through
FilterItem(item, cutoff) ==
    IF item.type # "dict" THEN "raise"                \* item.get: AttributeError
    ELSE LET traded_str == item.Traded IN
         IF traded_str.type \in {"missing", "NoneType"} THEN "skip"
         ELSE IF traded_str.type # "str" THEN "skip"    \* strptime: TypeError
         ELSE IF traded_str.s = <<>> THEN "skip"
         ELSE LET traded_date == strptime(traded_str.s) IN
              IF traded_date.raised THEN "skip"         \* ValueError
              ELSE IF traded_date.value >= cutoff THEN "keep" ELSE "skip"

\* the loop of lines 254-262 from item i on, filtered_data so far in acc
RECURSIVE FilterLoop(_, _, _, _)
FilterLoop(full_data, i, cutoff, acc) ==
    IF i > Len(full_data) THEN [raised |-> FALSE, value |-> acc]
    ELSE LET r == FilterItem(full_data[i], cutoff) IN
         IF r = "raise" THEN [raised |-> TRUE, value |-> <<>>]
         ELSE FilterLoop(full_data, i + 1, cutoff,
                         IF r = "keep" THEN Append(acc, full_data[i]) ELSE acc)

\* a mutant of load_congress_trading_data: every record with a date is kept
load_congress_trading_data_unfiltered(resp, nowv) ==
    IF resp.transport = "ok" /\ resp.body.fmt = "json"
       /\ resp.body.type = "list"
    THEN [raised |-> FALSE, filtered |-> TRUE,
          cutoff |-> nowv - timedelta(WindowDays),
          value |-> IF FilterLoop(resp.body.items, 1, 0, <<>>).raised THEN <<>>
                    ELSE FilterLoop(resp.body.items, 1, 0, <<>>).value]
    ELSE [raised |-> FALSE, filtered |-> FALSE, cutoff |-> 0, value |-> <<>>]

\* a mutant of load_congress_trading_data: a timeout is not caught
load_congress_trading_data_timeout(resp, nowv) ==
    IF resp.transport = "timeout"
    THEN [raised |-> TRUE, filtered |-> FALSE, cutoff |-> 0, value |-> <<>>]
    ELSE [raised |-> FALSE, filtered |-> FALSE, cutoff |-> 0, value |-> <<>>]

\* load_congress_trading_data(): the list returned; filtered says whether
\* line 251 was reached, cutoff is the cutoff_date computed there
load_congress_trading_data(resp, nowv) ==
    LET empty == [raised |-> FALSE, filtered |-> FALSE, cutoff |-> 0,
                  value |-> <<>>]
        cutoff == nowv - timedelta(WindowDays)
    IN
    IF resp.transport # "ok" THEN empty
    ELSE IF resp.body.fmt # "json" THEN empty          \* JSONDecodeError
    ELSE IF resp.body.type = "int" THEN empty          \* len(): TypeError
    ELSE IF resp.body.type = "dict"
    THEN \* iterating an object yields its keys, which have no get
         [raised |-> FALSE, filtered |-> TRUE, cutoff |-> cutoff, value |-> <<>>]
    ELSE LET r == FilterLoop(resp.body.items, 1, cutoff, <<>>)
         IN [raised |-> FALSE, filtered |-> TRUE, cutoff |-> cutoff,
             value |-> IF r.raised THEN <<>> ELSE r.value]

----------------------------------------------------------------------------
(* The legislators file and load_current_legislators_only *)

\* person["id"]: the key is missing, its value is null, or a block whose
\* bioguide is a string ("" also stands for a block without the key)
IdMissing == [type |-> "missing", bioguide |-> ""]
IdNull == [type |-> "NoneType", bioguide |-> ""]
IdBlock(b) == [type |-> "dict", bioguide |-> b]

\* a term: a mapping whose state is a string ("" also stands for a term
\* without the key), or a scalar
Term(st) == [type |-> "dict", state |-> st]
TermScalar == [type |-> "str", state |-> ""]

\* person["terms"]: the key is missing, or a list
TermsMissing == [type |-> "missing", items |-> <<>>]
TermsList(ts) == [type |-> "list", items |-> ts]

Person(id, terms) == [type |-> "dict", id |-> id, terms |-> terms]
PersonScalar == [type |-> "str", id |-> IdMissing, terms |-> TermsMissing]

Bioguides == {"B000001", "B000002"}
\* term sequences of up to two terms: every kind of last term, after
\* every kind of first term that differs from it
TermSeqs ==
    {<<>>, <<Term("CA")>>, <<Term("")>>, <<TermScalar>>,
     <<Term("CA"), Term("NY")>>, <<Term("NY"), Term("CA")>>,
     <<Term("CA"), Term("")>>, <<Term(""), Term("NY")>>,
     <<Term("CA"), TermScalar>>, <<TermScalar, Term("NY")>>}
TermsValues == {TermsMissing} \cup {TermsList(ts) : ts \in TermSeqs}
IdValues == {IdMissing, IdNull, IdBlock("")} \cup {IdBlock(b) : b \in Bioguides}
Persons == {Person(id, ts) : id \in IdValues, ts \in TermsValues} \cup {PersonScalar}

\* the file: missing, not readable, not YAML, or YAML (a list of records,
\* or the null of an empty document)
LegMissing == [kind |-> "missing", type |-> "none", data |-> <<>>]
LegUnreadable == [kind |-> "unreadable", type |-> "none", data |-> <<>>]
LegBadYaml == [kind |-> "badyaml", type |-> "none", data |-> <<>>]
LegNull == [kind |-> "yaml", type |-> "NoneType", data |-> <<>>]
LegList(ps) == [kind |-> "yaml", type |-> "list", data |-> ps]

LegFiles ==
    {LegMissing, LegUnreadable, LegBadYaml, LegNull}
    \cup {LegList(ps) : ps \in SeqsUpTo(Persons, MaxPersons)}

\* terms[-1]
LatestTerm(terms) == terms[Len(terms)]

\* a mutant of BuildPerson: an identifier already in the lookup keeps its
\* state
BuildPerson_keeps_first(person, lookup) ==
    IF person.type # "dict" \/ person.id.type = "NoneType"
    THEN [raised |-> TRUE, lookup |-> lookup]
    ELSE IF person.id.bioguide = "" \/ person.terms.items = <<>>
    THEN [raised |-> FALSE, lookup |-> lookup]
    ELSE IF LatestTerm(person.terms.items).type # "dict"
    THEN [raised |-> TRUE, lookup |-> lookup]
    ELSE IF LatestTerm(person.terms.items).state = ""
            \/ person.id.bioguide \in DOMAIN lookup
    THEN [raised |-> FALSE, lookup |-> lookup]
    ELSE [raised |-> FALSE,
          lookup |-> Put(lookup, person.id.bioguide,
                         LatestTerm(person.terms.items).state)]

\* the loop body of lines 115-121 on person: the lookup after it, or raised
BuildPerson(person, lookup) ==
    LET fail == [raised |-> TRUE, lookup |-> lookup]
        same == [raised |-> FALSE, lookup |-> lookup]
    IN IF person.type # "dict" THEN fail              \* person.get
       ELSE IF person.id.type = "NoneType" THEN fail  \* None.get("bioguide")
       ELSE LET bio_id == person.id.bioguide
                terms == person.terms.items
            IN IF bio_id = "" \/ terms = <<>> THEN same
               ELSE LET latest_term == LatestTerm(terms) IN
                    IF latest_term.type # "dict" THEN fail  \* latest_term.get
                    ELSE IF latest_term.state = "" THEN same
                    ELSE [raised |-> FALSE,
                          lookup |-> Put(lookup, bio_id, latest_term.state)]

\* the loop of lines 114-121 from record i on
RECURSIVE BuildLoop(_, _, _)
BuildLoop(data, i, lookup) ==
    IF i > Len(data) THEN [raised |-> FALSE, lookup |-> lookup]
    ELSE LET r == BuildPerson(data[i], lookup) IN
         IF r.raised THEN r ELSE BuildLoop(data, i + 1, r.lookup)

\* a mutant of load_current_legislators_only: a parse error is not caught
load_current_legislators_only_raises(file) ==
    IF file.kind \in {"unreadable", "badyaml"}
    THEN [raised |-> TRUE, failed |-> TRUE, value |-> EmptyMap]
    ELSE IF file.kind = "yaml" /\ file.type = "list"
              /\ ~BuildLoop(file.data, 1, EmptyMap).raised
    THEN [raised |-> FALSE, failed |-> FALSE,
          value |-> BuildLoop(file.data, 1, EmptyMap).lookup]
    ELSE [raised |-> FALSE, failed |-> file.kind # "missing", value |-> EmptyMap]

\* a mutant of load_current_legislators_only: the except branch returns the
\* entries collected before the error
load_current_legislators_only_partial(file) ==
    IF file.kind = "yaml" /\ file.type = "list"
    THEN [raised |-> FALSE,
          failed |-> BuildLoop(file.data, 1, EmptyMap).raised,
          value |-> BuildLoop(file.data, 1, EmptyMap).lookup]
    ELSE [raised |-> FALSE, failed |-> file.kind # "missing", value |-> EmptyMap]

\* load_current_legislators_only(): the mapping returned; failed says
\* whether the except branch of line 135 produced it
load_current_legislators_only(file) ==
    CASE file.kind = "missing" ->
            [raised |-> FALSE, failed |-> FALSE, value |-> EmptyMap]
      [] file.kind \in {"unreadable", "badyaml"} ->
            [raised |-> FALSE, failed |-> TRUE, value |-> EmptyMap]
      [] file.kind = "yaml" /\ file.type # "list" ->   \* for person in None
            [raised |-> FALSE, failed |-> TRUE, value |-> EmptyMap]
      [] OTHER ->
            LET r == BuildLoop(file.data, 1, EmptyMap) IN
            IF r.raised
            THEN [raised |-> FALSE, failed |-> TRUE, value |-> EmptyMap]
            ELSE [raised |-> FALSE, failed |-> FALSE, value |-> r.lookup]

\* LegislatorDirectory.build(paths) from file i on: a missing file is
\* skipped, the records of every other file go through the loop of lines
\* 114-121 into the one lookup
RECURSIVE BuildFiles(_, _, _)
BuildFiles(files, i, lookup) ==
    IF i > Len(files) THEN [raised |-> FALSE, lookup |-> lookup]
    ELSE IF files[i].kind = "missing" THEN BuildFiles(files, i + 1, lookup)
    ELSE IF files[i].kind # "yaml" \/ files[i].type # "list"
    THEN [raised |-> TRUE, lookup |-> lookup]
    ELSE LET r == BuildLoop(files[i].data, 1, lookup) IN
         IF r.raised THEN r ELSE BuildFiles(files, i + 1, r.lookup)

\* LegislatorDirectory.build(paths): an exception anywhere in the build
\* gives the empty mapping
build(files) ==
    LET r == BuildFiles(files, 1, EmptyMap) IN
    IF r.raised
    THEN [raised |-> FALSE, failed |-> TRUE, value |-> EmptyMap]
    ELSE [raised |-> FALSE, failed |-> FALSE, value |-> r.lookup]

----------------------------------------------------------------------------
(* The process: startup handlers, requests, shutdown *)

\* the DataStore lifecycle state of a position
phase(p) ==
    CASE p = "Uninitialized" -> "Uninitialized"
      [] p = "Ready" -> "Ready"
      [] p = "Stopped" -> "Stopped"
      [] OTHER -> "Initializing"

NoRet == [op |-> "none", arg |-> PyNone, raised |-> FALSE, value |-> NoRecord,
          saves |-> 0]
StepRet(op, raised) == [NoRet EXCEPT !.op = op, !.raised = raised]

NowBase == DateTime(2024, 6, 15, 0)

\* inputs of the process model: a few of LegFiles and of Responses
LegSamples ==
    {LegMissing, LegBadYaml,
     LegList(<<Person(IdBlock("B000001"), TermsList(<<Term("CA"), Term("NY")>>))>>)}

ResponseSamples ==
    {CurlFailed("timeout"),
     CurlOk(BodyArray(<<Trade(TradedStr(d_2020_01_01), "A"),
                        Trade(TradedStr(d_2024_06_01), "B")>>)),
     CurlOk(BodyArray(<<Trade(TradedStr(d_2022_06_16), "D")>>))}

\* the log of returned records: rec maps a symbol to the record its last
\* lookup returned, in this process or an earlier one; fault says whether a
\* lookup or a save raised or load_cache could not read the file; old says
\* whether records were logged before the last restart. A specification
\* that does not use the log leaves it off.
NoHistory == [on |-> FALSE, rec |-> EmptyMap, fault |-> FALSE, old |-> FALSE]
History == [NoHistory EXCEPT !.on = TRUE]

LogFault(h, f) == IF h.on /\ f THEN [h EXCEPT !.fault = TRUE] ELSE h

\* the log after fetch_company_info(ticker) ended as r
LogReturn(h, ticker, r) ==
    IF ~h.on THEN h
    ELSE IF r.raised THEN [h EXCEPT !.fault = TRUE]
    ELSE IF ticker.type = "str" /\ ticker.s # <<>>
    THEN [h EXCEPT !.rec = Put(h.rec, upper(ticker.s), r.value)]
    ELSE h

\* no request handler is inside fetch_company_info
NoThreads == <<>>

\* module import: the globals of lines 18 and 89-91
Fresh ==
    /\ pc = "Uninitialized"
    /\ ticker_cache = PyDict(EmptyMap)
    /\ congress_data = <<>>
    /\ state_lookup = EmptyMap
    /\ bio_to_committees = EmptyMap
    /\ cutoff_date = 0
    /\ stepLog = <<>>
    /\ ret = NoRet

Init ==
    /\ Fresh
    /\ disk \in [content : InitialContents, perm : Perms]
    /\ legFile \in LegSamples
    /\ response \in ResponseSamples
    /\ now \in {NowBase, NowBase + 1}
    /\ returned = NoHistory
    /\ paths = <<>>
    /\ threads = NoThreads

Env == <<legFile, response, now, paths, threads>>

\* the server starts and runs its startup handlers in registration order
Start ==
    /\ pc = "Uninitialized"
    /\ pc' = "h1_load"
    /\ UNCHANGED <<ticker_cache, disk, congress_data, state_lookup,
                   bio_to_committees, cutoff_date, stepLog, ret, returned, Env>>

\* the except branch of a startup handler (lines 166-171, 312-317)
StartupError(next) ==
    /\ congress_data' = <<>>
    /\ state_lookup' = EmptyMap
    /\ bio_to_committees' = EmptyMap
    /\ pc' = next

\* load_cache() in a startup handler (lines 149, 291)
CallLoadCache(at, next, after) ==
    /\ pc = at
    /\ LET r == load_cache(ticker_cache, disk) IN
       /\ ticker_cache' = r.cache
       /\ stepLog' = Append(stepLog, "load")
       /\ ret' = StepRet("load", r.raised)
       /\ IF r.raised THEN StartupError(after)
          ELSE /\ pc' = next
               /\ UNCHANGED <<congress_data, state_lookup, bio_to_committees>>
       /\ returned' = LogFault(returned,
                               /\ disk.content.fmt # "absent"
                               /\ \/ disk.perm = "none"
                                  \/ json_load(disk.content).raised
                                  \/ r.cache.type # "dict")
    /\ UNCHANGED <<disk, cutoff_date, Env>>

\* state_lookup = load_current_legislators_only() and, when it is the last
\* call of the handler, the assignments after it (lines 153-158, 295)
CallLoadLegislators(at, next, after, last) ==
    /\ pc = at
    /\ LET r == load_current_legislators_only(legFile) IN
       /\ stepLog' = Append(stepLog, "build")
       /\ ret' = StepRet("build", r.raised)
       /\ IF r.raised THEN StartupError(after)
          ELSE /\ pc' = next
               /\ state_lookup' = r.value
               /\ IF last
                  THEN congress_data' = <<>> /\ bio_to_committees' = EmptyMap
                  ELSE UNCHANGED <<congress_data, bio_to_committees>>
    /\ UNCHANGED <<ticker_cache, disk, cutoff_date, returned, Env>>

\* congress_data = load_congress_trading_data() and the rest of the
\* handler (lines 299-310)
CallLoadTrading(at, next) ==
    /\ pc = at
    /\ LET r == load_congress_trading_data(response, now) IN
       /\ stepLog' = Append(stepLog, "fetch")
       /\ ret' = StepRet("fetch", r.raised)
       /\ cutoff_date' = IF r.filtered THEN r.cutoff ELSE cutoff_date
       /\ IF r.raised THEN StartupError(next)
          ELSE /\ pc' = next
               /\ congress_data' = r.value
               /\ bio_to_committees' = EmptyMap
               /\ UNCHANGED state_lookup
    /\ UNCHANGED <<ticker_cache, disk, returned, Env>>

\* the first registered startup_event (lines 140-171)
H1_load_cache == CallLoadCache("h1_load", "h1_build", "h2_load")
H1_load_legislators == CallLoadLegislators("h1_build", "h2_load", "h2_load", TRUE)

\* the second registered startup_event (lines 282-317)
H2_load_cache == CallLoadCache("h2_load", "h2_build", "Ready")
H2_load_legislators == CallLoadLegislators("h2_build", "h2_fetch", "Ready", FALSE)
H2_load_trading == CallLoadTrading("h2_fetch", "Ready")

Startup ==
    \/ Start
    \/ H1_load_cache
    \/ H1_load_legislators
    \/ H2_load_cache
    \/ H2_load_legislators
    \/ H2_load_trading

\* a request handler calls fetch_company_info(ticker)
Lookup ==
    /\ pc = "Ready"
    /\ \E ticker \in TickerInputs :
         LET r == fetch_company_info(ticker, ticker_cache, disk) IN
         /\ ticker_cache' = r.cache
         /\ disk' = r.disk
         /\ ret' = [op |-> "lookup", arg |-> ticker, raised |-> r.raised,
                    value |-> r.value, saves |-> r.saves]
         /\ returned' = LogReturn(returned, ticker, r)
    /\ UNCHANGED <<pc, congress_data, state_lookup, bio_to_committees,
                   cutoff_date, stepLog, Env>>

\* a mutant of TestEndpoint: the sample is popped off the trade list
TestEndpoint_pops ==
    /\ pc = "Ready"
    /\ congress_data' = IF congress_data = <<>> THEN <<>>
                        ELSE Tail(congress_data)
    /\ ret' = [NoRet EXCEPT !.op = "test"]
    /\ UNCHANGED <<pc, ticker_cache, disk, state_lookup, bio_to_committees,
                   cutoff_date, stepLog, returned, Env>>

\* a request handler that reports on the loaded data: test_endpoint reads
\* congress_data[:3], the names of congress_data[:100] and the sizes and
\* first items of the three collections, and assigns none of them
TestEndpoint ==
    /\ pc = "Ready"
    /\ ret' = [NoRet EXCEPT !.op = "test"]
    /\ UNCHANGED <<pc, ticker_cache, disk, congress_data, state_lookup,
                   bio_to_committees, cutoff_date, stepLog, returned, Env>>

\* a mutant of Shutdown: the handler does not call save_cache
Shutdown_no_save ==
    /\ pc = "Ready"
    /\ ret' = [NoRet EXCEPT !.op = "shutdown"]
    /\ pc' = "Stopped"
    /\ UNCHANGED <<ticker_cache, disk, congress_data, state_lookup,
                   bio_to_committees, cutoff_date, stepLog, returned, Env>>

\* shutdown_event (lines 173-175)
Shutdown ==
    /\ pc = "Ready"
    /\ LET sv == save_cache(ticker_cache, disk) IN
       /\ disk' = sv.disk
       /\ ret' = [NoRet EXCEPT !.op = "shutdown", !.raised = sv.raised,
                               !.saves = 1]
       /\ returned' = LogFault(returned, sv.raised)
    /\ pc' = "Stopped"
    /\ UNCHANGED <<ticker_cache, congress_data, state_lookup,
                   bio_to_committees, cutoff_date, stepLog, Env>>

\* a new process is started on the same files
Restart ==
    /\ pc = "Stopped"
    /\ pc' = "Uninitialized"
    /\ ticker_cache' = PyDict(EmptyMap)
    /\ congress_data' = <<>>
    /\ state_lookup' = EmptyMap
    /\ bio_to_committees' = EmptyMap
    /\ cutoff_date' = 0
    /\ stepLog' = <<>>
    /\ ret' = NoRet
    /\ returned' = [returned EXCEPT !.old = @ \/ returned.rec # EmptyMap]
    /\ UNCHANGED <<disk, Env>>

\* the access mode of the cache file changes between requests
Chmod ==
    /\ pc = "Ready"
    /\ \E p \in Perms \ {disk.perm} : disk' = [disk EXCEPT !.perm = p]
    /\ UNCHANGED <<pc, ticker_cache, congress_data, state_lookup,
                   bio_to_committees, cutoff_date, stepLog, ret, returned, Env>>

\* the clock advances while the process serves requests
Tick ==
    /\ pc = "Ready"
    /\ now < NowBase + MaxTicks
    /\ now' = now + 1
    /\ UNCHANGED <<pc, ticker_cache, disk, congress_data, state_lookup,
                   bio_to_committees, cutoff_date, stepLog, ret, returned,
                   legFile, response, paths, threads>>

Next ==
    \/ Startup
    \/ Lookup
    \/ TestEndpoint
    \/ Shutdown
    \/ Restart
    \/ Chmod
    \/ Tick

Spec == Init /\ [][Next]_vars

----------------------------------------------------------------------------
(* Specifications of the parts *)

\* the startup handlers alone, from process start to Ready; the server runs
\* its handlers to the end once it has started
SpecStartup == Init /\ [][Startup]_vars /\ WF_vars(Startup)

\* the process about to call load_congress_trading_data in the second
\* handler, for every response of the endpoint within the bounds
InitFeed ==
    /\ pc = "h2_fetch"
    /\ ticker_cache = PyDict(EmptyMap)
    /\ disk = [content |-> Absent, perm |-> "rw"]
    /\ congress_data = <<>>
    /\ state_lookup = EmptyMap
    /\ bio_to_committees = EmptyMap
    /\ cutoff_date = 0
    /\ stepLog = <<"load", "build", "load", "build">>
    /\ ret = StepRet("build", FALSE)
    /\ legFile = LegMissing
    /\ response \in Responses
    /\ now \in {NowBase, NowBase + 1}
    /\ returned = NoHistory
    /\ paths = <<>>
    /\ threads = NoThreads

NextFeed == H2_load_trading

SpecFeed == InitFeed /\ [][NextFeed]_vars

\* the process about to call load_current_legislators_only in the first
\* handler, for every legislators file within the bounds
InitLeg ==
    /\ pc = "h1_build"
    /\ ticker_cache = PyDict(EmptyMap)
    /\ disk = [content |-> Absent, perm |-> "rw"]
    /\ congress_data = <<>>
    /\ state_lookup = EmptyMap
    /\ bio_to_committees = EmptyMap
    /\ cutoff_date = 0
    /\ stepLog = <<"load">>
    /\ ret = StepRet("load", FALSE)
    /\ legFile \in LegFiles
    /\ response = CurlFailed("timeout")
    /\ now = NowBase
    /\ returned = NoHistory
    /\ paths = <<>>
    /\ threads = NoThreads

NextLeg == H1_load_legislators

SpecLeg == InitLeg /\ [][NextLeg]_vars

\* records and files for a build over two files: the two identifiers with
\* one or two terms, a record without terms and a scalar record
BuildPersons ==
    {Person(IdBlock("B000001"), TermsList(<<Term("CA")>>)),
     Person(IdBlock("B000001"), TermsList(<<Term("CA"), Term("NY")>>)),
     Person(IdBlock("B000002"), TermsList(<<Term("TX")>>)),
     Person(IdBlock("B000001"), TermsList(<<>>)),
     PersonScalar}

BuildInputs ==
    {LegMissing, LegBadYaml}
    \cup {LegList(ps) : ps \in SeqsUpTo(BuildPersons, MaxPersons)}

\* the startup step that builds the legislator mapping, over paths
BuildOverPaths ==
    /\ pc = "h1_build"
    /\ pc' = "h2_load"
    /\ state_lookup' = build(paths).value
    /\ stepLog' = Append(stepLog, "build")
    /\ ret' = StepRet("build", build(paths).raised)
    /\ UNCHANGED <<ticker_cache, disk, congress_data, bio_to_committees,
                   cutoff_date, returned, Env>>

InitBuild ==
    /\ pc = "h1_build"
    /\ ticker_cache = PyDict(EmptyMap)
    /\ disk = [content |-> Absent, perm |-> "rw"]
    /\ congress_data = <<>>
    /\ state_lookup = EmptyMap
    /\ bio_to_committees = EmptyMap
    /\ cutoff_date = 0
    /\ stepLog = <<"load">>
    /\ ret = StepRet("load", FALSE)
    /\ legFile = LegMissing
    /\ response = CurlFailed("timeout")
    /\ now = NowBase
    /\ returned = NoHistory
    /\ paths \in BuildInputs \X BuildInputs
    /\ threads = NoThreads

NextBuild == BuildOverPaths

SpecBuild == InitBuild /\ [][NextBuild]_vars

\* Request handlers run in the threads of the server's pool, so calls of
\* fetch_company_info interleave line by line; nothing in lines 40-57 takes
\* a lock. A thread is at the membership test (check), the insert, the
\* open of save_cache, the json.dump, or the end of the with block (close,
\* or raise when the json.dump failed).
Thread(ticker) ==
    [at |-> "check", ticker |-> ticker, buf |-> PyDict(EmptyMap),
     raised |-> FALSE, value |-> NoRecord]

ConcurrentTickers == {s_aapl, s_AAPL, s_msft}

\* size of the text json.dump writes for obj; the entries lookups insert
\* for the symbols above all have the same size
TextLen(obj) == Cardinality(DOMAIN obj.d)

ConcFrame == <<pc, congress_data, state_lookup, bio_to_committees, cutoff_date,
               stepLog, ret, returned, legFile, response, now, paths>>

\* lines 49-51: normalise, test membership, return the cached record
ThreadCheck ==
    \E i \in DOMAIN threads :
        /\ pc = "Ready" /\ threads[i].at = "check"
        /\ LET t == upper(threads[i].ticker) IN
           threads' = [threads EXCEPT ![i] =
                          IF t \in DOMAIN ticker_cache.d
                          THEN [@ EXCEPT !.at = "done",
                                         !.value = ticker_cache.d[t]]
                          ELSE [@ EXCEPT !.at = "insert"]]
        /\ UNCHANGED <<ticker_cache, disk, ConcFrame>>

\* lines 54-55: ticker_cache[ticker] = fallback
ThreadInsert ==
    \E i \in DOMAIN threads :
        /\ pc = "Ready" /\ threads[i].at = "insert"
        /\ LET t == upper(threads[i].ticker) IN
           ticker_cache' = PyDict(Put(ticker_cache.d, t, FallbackOf(t)))
        /\ threads' = [threads EXCEPT ![i].at = "open"]
        /\ UNCHANGED <<disk, ConcFrame>>

\* line 41: open(CACHE_PATH, "w") truncates the file
ThreadOpen ==
    \E i \in DOMAIN threads :
        /\ pc = "Ready" /\ threads[i].at = "open"
        /\ disk' = [disk EXCEPT !.content = Partial]
        /\ threads' = [threads EXCEPT ![i].at = "dump"]
        /\ UNCHANGED <<ticker_cache, ConcFrame>>

\* line 42: json.dump iterates ticker_cache into the buffer of this
\* thread's file object
ThreadDump ==
    \E i \in DOMAIN threads :
        /\ pc = "Ready" /\ threads[i].at = "dump"
        /\ threads' = [threads EXCEPT ![i].at = "close",
                                      ![i].buf = ticker_cache]
        /\ UNCHANGED <<ticker_cache, disk, ConcFrame>>

\* line 55 of thread j while thread i is inside the iteration of line 42:
\* the dictionary changes size during the iteration, so the json.dump of
\* thread i will raise RuntimeError
ThreadDumpInterrupted ==
    \E i, j \in DOMAIN threads :
        /\ i # j
        /\ pc = "Ready" /\ threads[i].at = "dump" /\ threads[j].at = "insert"
        /\ upper(threads[j].ticker) \notin DOMAIN ticker_cache.d
        /\ LET t == upper(threads[j].ticker) IN
           ticker_cache' = PyDict(Put(ticker_cache.d, t, FallbackOf(t)))
        /\ threads' = [threads EXCEPT ![i].at = "raise", ![j].at = "open"]
        /\ UNCHANGED <<disk, ConcFrame>>

\* the RuntimeError leaves the with block of thread i, which writes the
\* text produced so far at offset 0: the start of an object, over a file
\* that holds nothing, or a text that this one is the start of or not
ThreadRaise ==
    \E i \in DOMAIN threads :
        /\ pc = "Ready" /\ threads[i].at = "raise"
        /\ \E text \in {disk.content, Garbage} :
              /\ text # Garbage => disk.content.fmt = "json"
              /\ disk' = [disk EXCEPT !.content = text]
        /\ threads' = [threads EXCEPT ![i].at = "done", ![i].raised = TRUE]
        /\ UNCHANGED <<ticker_cache, ConcFrame>>

\* the end of the with block: the buffer is written at offset 0 of the
\* file as it is by now, over what other threads wrote since this
\* thread's open; then line 57 returns the fallback record
ThreadClose ==
    \E i \in DOMAIN threads :
        /\ pc = "Ready" /\ threads[i].at = "close"
        /\ \E text \in {json_dump(threads[i].buf), Garbage} :
              /\ text = Garbage =>
                    \/ disk.content.fmt = "garbage"
                    \/ /\ disk.content.fmt = "json"
                       /\ TextLen(disk.content.doc) > TextLen(threads[i].buf)
              /\ text # Garbage =>
                    ~(/\ disk.content.fmt = "json"
                      /\ TextLen(disk.content.doc) > TextLen(threads[i].buf))
              /\ disk' = [disk EXCEPT !.content = text]
        /\ threads' = [threads EXCEPT
                          ![i].at = "done",
                          ![i].value = FallbackOf(upper(threads[i].ticker))]
        /\ UNCHANGED <<ticker_cache, ConcFrame>>

\* the process at Ready with an empty cache and MaxThreads requests that
\* have entered fetch_company_info
InitConc ==
    /\ pc = "Ready"
    /\ ticker_cache = PyDict(EmptyMap)
    /\ disk \in [content : {Absent, json_dump(PyDict(EmptyMap))}, perm : {"rw"}]
    /\ congress_data = <<>>
    /\ state_lookup = EmptyMap
    /\ bio_to_committees = EmptyMap
    /\ cutoff_date = 0
    /\ stepLog = <<"load", "build", "load", "build", "fetch">>
    /\ ret = StepRet("fetch", FALSE)
    /\ legFile = LegMissing
    /\ response = CurlFailed("timeout")
    /\ now = NowBase
    /\ returned = NoHistory
    /\ paths = <<>>
    /\ threads \in [1..MaxThreads -> {Thread(t) : t \in ConcurrentTickers}]

NextConc ==
    \/ ThreadCheck
    \/ ThreadInsert
    \/ ThreadOpen
    \/ ThreadDump
    \/ ThreadDumpInterrupted
    \/ ThreadRaise
    \/ ThreadClose

SpecConc == InitConc /\ [][NextConc]_vars

\* processes that follow one another on the same cache file, with the log
\* of returned records on: startup, lookups, shutdown, restart
InitDurable ==
    /\ Fresh
    /\ disk \in [content : InitialContents, perm : Perms]
    /\ legFile = LegMissing
    /\ response = CurlFailed("timeout")
    /\ now = NowBase
    /\ returned = History
    /\ paths = <<>>
    /\ threads = NoThreads

NextDurable ==
    \/ Startup
    \/ Lookup
    \/ Shutdown
    \/ Restart
    \/ Chmod

SpecDurable == InitDurable /\ [][NextDurable]_vars

----------------------------------------------------------------------------
(* Properties of the ticker cache *)

\* the symbols held by the in-memory cache
Entries == IF ticker_cache.type = "dict" THEN DOMAIN ticker_cache.d ELSE {}

\* the step is a call of fetch_company_info(ticker)
LookupStep(ticker) ==
    /\ pc = "Ready" /\ pc' = "Ready"
    /\ now' = now
    /\ disk'.perm = disk.perm
    /\ ret'.op = "lookup" /\ ret'.arg = ticker

\* C1: whenever a lookup that missed has returned, the cache file holds
\* exactly the full in-memory ticker mapping, the new entry included under
\* its uppercase key.
C1_WriteThrough ==
    (ret.op = "lookup" /\ ret.saves = 1 /\ ~ret.raised) =>
        /\ json_load(disk.content) = [raised |-> FALSE, value |-> ticker_cache]
        /\ ticker_cache.type = "dict"
        /\ upper(ret.arg.s) \in DOMAIN json_load(disk.content).value.d

\* lookup("aapl") missed and returned with other entries already cached:
\* the file holds them all and the key "AAPL"
C1_Witness ==
    /\ ret.op = "lookup" /\ ret.arg = PyStr(s_aapl)
    /\ ret.saves = 1 /\ ~ret.raised
    /\ disk.content.fmt = "json"
    /\ {s_AAPL, s_MSFT} \subseteq DOMAIN disk.content.doc.d

\* C2: a lookup of a non-empty string symbol not yet in the cache inserts
\* exactly one new entry and triggers exactly one persist; a lookup of a
\* symbol already cached (in any letter case) returns the stored record,
\* adds no entry and triggers no persist.
C2_IdempotentCache ==
    [][\A ticker \in TickerInputs :
         (ticker.type = "str" /\ ticker.s # <<>> /\ LookupStep(ticker)) =>
            LET t == upper(ticker.s) IN
            IF t \notin Entries
            THEN /\ Entries' = Entries \cup {t}
                 /\ ret'.saves = 1
            ELSE /\ ~ret'.raised
                 /\ ret'.value = ticker_cache.d[t]
                 /\ ticker_cache' = ticker_cache
                 /\ disk' = disk
                 /\ ret'.saves = 0]_vars

\* C8: after load_cache, whatever the state of the cache file, nothing was
\* raised and the in-memory cache equals the file's mapping when the file
\* holds a valid mapping and is an empty mapping in every other case.
C8_LoadTotal ==
    (ret.op = "load") =>
        /\ ~ret.raised
        /\ ticker_cache =
             IF /\ disk.content.fmt = "json"
                /\ disk.perm # "none"
                /\ disk.content.doc.type = "dict"
             THEN disk.content.doc
             ELSE PyDict(EmptyMap)

\* C9: a cache write failure is swallowed: a lookup that missed returns
\* its record, and neither it nor the save at shutdown raises.
C9_WriteFailureSwallowed ==
    /\ (ret.op = "shutdown") => ~ret.raised
    /\ (ret.op = "lookup" /\ ret.saves = 1) =>
          /\ ~ret.raised
          /\ ret.value = FallbackOf(upper(ret.arg.s))

\* C16: a lookup of an empty or non-string ticker returns the sentinel
\* record {name: "Unknown", industry: "Unknown"}, raises nothing and leaves
\* the in-memory cache and the cache file as they were.
C16_SentinelNoEffect ==
    [][\A ticker \in TickerInputs :
         ((ticker.type # "str" \/ ticker.s = <<>>) /\ LookupStep(ticker)) =>
            /\ ~ret'.raised
            /\ ret'.value = UnknownRecord
            /\ ret'.saves = 0
            /\ ticker_cache' = ticker_cache
            /\ disk' = disk]_vars

\* a lookup of a non-string returned the sentinel with entries in the cache
\* and none of them named "Unknown"
C16_Witness ==
    /\ ret.op = "lookup" /\ ret.arg = PyInt
    /\ ret.value = UnknownRecord
    /\ Entries # {}
    /\ disk.content.fmt = "json"

\* characters c1 and c2 are the same letter in either case, or the same
\* character
SameLetter(c1, c2) ==
    \/ c1 = c2
    \/ \E i \in 1..26 : {c1, c2} = {LowerLetters[i], UpperLetters[i]}

\* strings s1 and s2 differ at most in letter case
DifferOnlyInCase(s1, s2) ==
    /\ Len(s1) = Len(s2)
    /\ \A i \in 1..Len(s1) : SameLetter(s1[i], s2[i])

\* C15: lookups of two ticker symbols that differ only in letter case
\* return the same record: a lookup made after a lookup of the symbol in
\* another letter case returns, as that one did, and returns its record.
C15_CaseNormalization ==
    [][\A t2 \in TickerInputs :
         (/\ LookupStep(t2)
          /\ t2.type = "str" /\ t2.s # <<>>
          /\ ret.op = "lookup" /\ ret.arg.type = "str"
          /\ ret.arg.s # t2.s
          /\ DifferOnlyInCase(ret.arg.s, t2.s)) =>
            /\ ~ret.raised
            /\ ~ret'.raised
            /\ ret'.value = ret.value]_vars

\* C14: after shutdown the cache file holds exactly the in-memory ticker
\* mapping as it was at shutdown, whatever the file held before.
C14_ShutdownSaves ==
    (pc = "Stopped") => disk.content = json_dump(ticker_cache)

\* C14 as amended: after shutdown with a cache file that can be written the
\* save has returned and the file holds exactly the in-memory ticker
\* mapping as it was at shutdown, whatever the file held before.
C14_ShutdownSavesWritable ==
    (pc = "Stopped" /\ disk.perm = "rw") =>
        /\ ret.op = "shutdown" /\ ret.saves = 1 /\ ~ret.raised
        /\ disk.content = json_dump(ticker_cache)

\* stopped with a writable file and two entries in memory: the file holds
\* the two entries of the mapping
C14_Witness ==
    /\ pc = "Stopped" /\ disk.perm = "rw"
    /\ Entries = {s_AAPL, s_MSFT}
    /\ disk.content = json_dump(ticker_cache)

\* s holds no lowercase letter
IsUppercase(s) == \A i \in 1..Len(s) : \A j \in 1..26 : s[i] # LowerLetters[j]

\* the keys of the mapping held by the cache file
FileKeys ==
    IF disk.content.fmt = "json" /\ disk.content.doc.type = "dict"
    THEN DOMAIN disk.content.doc.d ELSE {}

\* C20: in every reachable state, whatever mapping load read from the cache
\* file, every key of the in-memory ticker mapping is uppercase and no two
\* keys differ only in letter case.
C20_UppercaseKeys ==
    /\ \A k \in Entries : IsUppercase(k)
    /\ \A k1, k2 \in Entries : DifferOnlyInCase(k1, k2) => k1 = k2

\* C20 as amended: every key that enters the in-memory ticker mapping is
\* uppercase when a lookup inserts it, and is a key of the cache file, taken
\* as it is, when load reads it; a key that is not uppercase can only have
\* been read from the cache file.
C20_InsertedKeysUppercase ==
    [][\A k \in Entries' \ Entries :
          IF ret'.op = "load"
          THEN k \in FileKeys
          ELSE /\ IsUppercase(k)
               /\ \E ticker \in TickerInputs :
                     LookupStep(ticker) /\ DifferOnlyInCase(k, ticker.s)]_vars

\* lookup("aapl") has inserted the key "AAPL" next to the key "aapl" that
\* load had read from the cache file
C20_Witness ==
    /\ ret.op = "lookup" /\ ret.arg = PyStr(s_aapl) /\ ret.saves = 1
    /\ Entries = {s_aapl, s_AAPL}

\* C18: once a lookup has returned a record for a symbol, every later
\* lookup of that symbol returns the same record, after any further
\* lookups and saves, a shutdown and a restart with load: the record that
\* a later lookup returns is never another one.
C18_ImmutableDurable ==
    [][\A ticker \in TickerInputs :
         (/\ LookupStep(ticker)
          /\ ticker.type = "str" /\ ticker.s # <<>>
          /\ upper(ticker.s) \in DOMAIN returned.rec
          /\ ~ret'.raised) =>
            ret'.value = returned.rec[upper(ticker.s)]]_vars

\* C18 as amended: once a lookup has returned a record for a symbol, every
\* later lookup of that symbol returns the same record, after any further
\* lookups and saves, a shutdown and a restart with load, as long as no
\* write of the cache file has failed and load_cache has read the file.
C18_DurableWithoutFault ==
    [][\A ticker \in TickerInputs :
         (/\ LookupStep(ticker)
          /\ ticker.type = "str" /\ ticker.s # <<>>
          /\ upper(ticker.s) \in DOMAIN returned.rec
          /\ ~returned.fault) =>
            /\ ~ret'.raised
            /\ ret'.value = returned.rec[upper(ticker.s)]]_vars

\* a lookup of "aapl" returned, without a persist, the record that an
\* earlier process had returned for AAPL and that is not the fallback
\* record, after a restart and a lookup of another symbol
C18_Witness ==
    /\ pc = "Ready" /\ returned.old /\ ~returned.fault
    /\ ret.op = "lookup" /\ ret.arg = PyStr(s_aapl) /\ ret.saves = 0
    /\ ret.value = AppleRecord
    /\ DOMAIN returned.rec = {s_AAPL, s_MSFT}
    /\ returned.rec[s_AAPL] = AppleRecord

\* C19: with lookups of uncached tickers running concurrently, once all of
\* them have returned, every lookup has returned its record, every symbol
\* looked up is in the in-memory mapping and the cache file holds exactly
\* the in-memory mapping, not a partial or corrupted text.
C19_ConcurrentWrites ==
    (threads # NoThreads /\ \A i \in DOMAIN threads : threads[i].at = "done") =>
        /\ \A i \in DOMAIN threads :
              /\ ~threads[i].raised
              /\ upper(threads[i].ticker) \in Entries
              /\ threads[i].value = ticker_cache.d[upper(threads[i].ticker)]
        /\ disk.content = json_dump(ticker_cache)

----------------------------------------------------------------------------
(* Properties of the trade feed ingestion *)

\* the response carries a decoded JSON array
FeedDecoded ==
    /\ response.transport = "ok"
    /\ response.body.fmt = "json"
    /\ response.body.type = "list"

\* item is a record whose Traded field parses as a date not older than
\* the cutoff of 730 days before now
InWindow(item) ==
    /\ item.type = "dict"
    /\ item.Traded.type = "str"
    /\ ~strptime(item.Traded.s).raised
    /\ strptime(item.Traded.s).value >= now - WindowDays * TicksPerDay

\* C3: the list returned for a decoded feed is exactly the subsequence, in
\* feed order, of the records whose Traded field parses as a date with
\* tradedDate >= now - 730 days.
C3_FilterExact ==
    (ret.op = "fetch" /\ FeedDecoded) =>
        congress_data = SelectSeq(response.body.items, InWindow)

\* C6: when the fetch ends with a non-zero exit status, a timeout or a
\* launch failure, or the body is not JSON, the result is the empty list,
\* nothing is raised and startup goes on to Ready.
C6_FeedFailureEmpty ==
    (/\ ret.op = "fetch"
     /\ \/ response.transport \in TransportFailures
        \/ response.body.fmt # "json") =>
        /\ ~ret.raised
        /\ congress_data = <<>>
        /\ pc = "Ready"

\* the fetch timed out and startup reached Ready with no trades
C6_Witness ==
    /\ ret.op = "fetch" /\ response.transport = "timeout"
    /\ pc = "Ready" /\ congress_data = <<>>

\* C7: a malformed element of the feed is dropped on its own: every other
\* record of the feed with a parsable in-window date is retained.
C7_MalformedDroppedAlone ==
    (ret.op = "fetch" /\ FeedDecoded) =>
        \A i \in DOMAIN response.body.items :
            InWindow(response.body.items[i]) =>
                \E j \in DOMAIN congress_data :
                    congress_data[j] = response.body.items[i]

\* C17: in every state after the trades are loaded, while the process runs
\* and the clock advances, every trade held in memory has
\* tradedDate >= now - 730 days, now being the current time.
C17_RecencyNow ==
    (pc = "Ready") =>
        \A i \in DOMAIN congress_data : InWindow(congress_data[i])

\* C17 as amended: in every state after the trades are loaded, every trade
\* held in memory has a Traded field that parses as a date with
\* tradedDate >= cutoff, the cutoff being the time of the load - 730 days,
\* a time not after now - 730 days.
C17_RecencyAtLoad ==
    (pc \in {"Ready", "Stopped"}) =>
        /\ \A i \in DOMAIN congress_data :
              /\ congress_data[i].type = "dict"
              /\ congress_data[i].Traded.type = "str"
              /\ ~strptime(congress_data[i].Traded.s).raised
              /\ strptime(congress_data[i].Traded.s).value >= cutoff_date
        /\ congress_data # <<>> =>
              /\ cutoff_date <= now - WindowDays * TicksPerDay
              /\ cutoff_date >= NowBase - WindowDays * TicksPerDay

\* the clock has advanced since the load and a trade held in memory is
\* older than now - 730 days
C17_Witness ==
    /\ pc = "Ready"
    /\ congress_data # <<>>
    /\ cutoff_date < now - WindowDays * TicksPerDay
    /\ ~InWindow(congress_data[1])

----------------------------------------------------------------------------
(* Properties of the startup sequence *)

\* the steps whose own error path is taken, by the input they work on
CacheLoadFails ==
    /\ disk.content.fmt # "absent"
    /\ (disk.perm = "none" \/ disk.content.fmt # "json")

BuildFails ==
    \/ legFile.kind \in {"unreadable", "badyaml"}
    \/ legFile.kind = "yaml" /\ legFile.type # "list"
    \/ legFile.kind = "yaml" /\ BuildLoop(legFile.data, 1, EmptyMap).raised

FetchFails ==
    \/ response.transport # "ok"
    \/ response.body.fmt # "json"

StepsRun == {stepLog[i] : i \in DOMAIN stepLog}

IsolatedAtReady ==
    (pc = "Ready") =>
        /\ StepsRun = {"load", "build", "fetch"}
        /\ stepLog[Len(stepLog)] = "fetch"
        /\ ticker_cache =
             IF CacheLoadFails \/ disk.content.fmt = "absent"
             THEN PyDict(EmptyMap) ELSE disk.content.doc
        /\ state_lookup =
             IF BuildFails THEN EmptyMap
             ELSE load_current_legislators_only(legFile).value
        /\ congress_data =
             IF FetchFails THEN <<>>
             ELSE load_congress_trading_data(response, now).value
        /\ FetchFails => congress_data = <<>>

\* C4: for every combination of failures of the three startup steps,
\* startup reaches Ready, every step has been run, a failing step left an
\* empty collection for its own output and the outputs of the steps that
\* succeeded are kept.
C4_FailureIsolation == []IsolatedAtReady /\ <>(pc = "Ready")

\* Ready after the legislator build failed and the two other steps
\* succeeded with non-empty outputs
C4_Witness ==
    /\ pc = "Ready"
    /\ BuildFails /\ ~CacheLoadFails /\ ~FetchFails
    /\ state_lookup = EmptyMap
    /\ Entries # {}
    /\ congress_data # <<>>

\* C5: at Ready the ingestion steps executed are exactly cache load, then
\* legislator build, then trade fetch, each once.
C5_StepsOnceInOrder ==
    (pc = "Ready") => stepLog = <<"load", "build", "fetch">>

\* C13: once Ready is reached, no request-time operation (ticker lookup,
\* diagnostic read) changes the legislator mapping or the trade sequence;
\* the ticker cache is the only collection that changes, and only in a
\* lookup.
C13_ReadyFrame ==
    [][(pc = "Ready" /\ pc' = "Ready") =>
          /\ state_lookup' = state_lookup
          /\ congress_data' = congress_data
          /\ bio_to_committees' = bio_to_committees
          /\ (ticker_cache' # ticker_cache) =>
                \E ticker \in TickerInputs : LookupStep(ticker)]_vars

\* a diagnostic read at Ready after a lookup that inserted an entry, with
\* legislators and trades loaded
C13_Witness ==
    /\ pc = "Ready" /\ ret.op = "test"
    /\ s_MSFT \in Entries
    /\ state_lookup # EmptyMap
    /\ congress_data # <<>>

----------------------------------------------------------------------------
(* Properties of the legislator build *)

\* record p yields the entry b -> st
Yields(p, b, st) ==
    /\ p.type = "dict"
    /\ p.id.type = "dict" /\ p.id.bioguide = b /\ b # ""
    /\ p.terms.items # <<>>
    /\ p.terms.items[Len(p.terms.items)].type = "dict"
    /\ p.terms.items[Len(p.terms.items)].state = st /\ st # ""

\* record p has an empty term sequence or no identifier block
NoTermsOrNoId(p) ==
    /\ p.type = "dict"
    /\ (p.terms.items = <<>> \/ p.id.type = "missing")

HasTermsAndId(p) == ~NoTermsOrNoId(p)

\* C10: every entry of the mapping built from a sequence of records comes
\* from a record with that identifier, a non-empty term sequence and that
\* state on its last term; the records with an empty term sequence or
\* without identifier block contribute nothing and leave the entries of
\* the other records as they are without them.
C10_LegislatorBuild ==
    (ret.op = "build" /\ legFile.kind = "yaml" /\ legFile.type = "list") =>
        /\ \A b \in DOMAIN state_lookup :
              \E i \in DOMAIN legFile.data :
                  Yields(legFile.data[i], b, state_lookup[b])
        /\ state_lookup =
              load_current_legislators_only(
                  LegList(SelectSeq(legFile.data, HasTermsAndId))).value

\* file f is there and reading it or building from it raises
FileFails(f) ==
    \/ f.kind \in {"unreadable", "badyaml"}
    \/ f.kind = "yaml" /\ f.type # "list"
    \/ f.kind = "yaml" /\ BuildLoop(f.data, 1, EmptyMap).raised

\* the records of file f that yield an entry for identifier b
YieldingIn(f, b) ==
    {i \in DOMAIN f.data : \E st \in {"CA", "NY", "TX"} : Yields(f.data[i], b, st)}

\* the last element of a non-empty set of indices
Last(S) == CHOOSE i \in S : \A j \in S : j <= i

C12_BuildNeverFails ==
    (ret.op = "build") =>
        /\ ~ret.raised
        /\ pc = "h2_load"
        /\ (legFile.kind = "missing" \/ BuildFails) => state_lookup = EmptyMap

\* the build met a scalar record after a record that yields an entry, and
\* returned the empty mapping
C12_Witness ==
    /\ ret.op = "build" /\ ~ret.raised
    /\ legFile.kind = "yaml" /\ legFile.type = "list"
    /\ Len(legFile.data) = 2
    /\ Yields(legFile.data[1], "B000001", "CA")
    /\ legFile.data[2].type # "dict"
    /\ state_lookup = EmptyMap

====
